---- MODULE Spec2Model ----
(***************************************************************************)
(* Schwimmen (31) game server: the room state machine of server/index.ts   *)
(* together with the pure rules of src/utils/gameLogic.ts and the AI       *)
(* strategy of src/utils/aiStrategy.ts.                                    *)
(*                                                                         *)
(* Representation.                                                         *)
(*  - A card is its position 1..32 in createDeck(): the id `suit-rank` is  *)
(*    in bijection with that position.                                     *)
(*  - A player id is the seat index 0..n-1 (`player-i` / `ai-i` are in     *)
(*    bijection with the seats); -1 is findIndex's "not found".            *)
(*  - Scores are counted in half points (30.5 is 61), confidences in       *)
(*    hundredths.                                                          *)
(*  - One room is modelled; rooms share no state.                          *)
(***************************************************************************)
EXTENDS Integers, Sequences, FiniteSets, TLC

(***************************************************************************)
(* Bounds of the exploration.                                              *)
(***************************************************************************)
MaxRounds == 3
MaxTimers == 2
MaxPick == 1
MaxStrays == 1
MaxActions == 3
MaxLives == 3
MaxSeats == 8

(***************************************************************************)
(* Cards and scoring (src/utils/gameLogic.ts).                             *)
(***************************************************************************)
NumSuits == 4
NumRanks == 8
SUITS == 0 .. (NumSuits - 1)
RANKS == 0 .. (NumRanks - 1)
ACE == 7

createDeck == [i \in 1 .. (NumSuits * NumRanks) |-> i]

SuitOf(c) == (c - 1) \div NumRanks
RankOf(c) == (c - 1) % NumRanks

\* a faulty variant: the ace counts 12
CARD_VALUESAceTwelve(r) == IF r <= 3 THEN r + 7 ELSE IF r = ACE THEN 12 ELSE 10

\* '7' 7, '8' 8, '9' 9, '10' 10, 'J' 10, 'Q' 10, 'K' 10, 'A' 11
CARD_VALUES(r) == IF r <= 3 THEN r + 7 ELSE IF r = ACE THEN 11 ELSE 10

NoCard == 0
NONE == -1

Range(s) == {s[i] : i \in DOMAIN s}

SetMax(S) == CHOOSE x \in S : \A y \in S : y <= x
SetMin(S) == CHOOSE x \in S : \A y \in S : x <= y

\* calculateScore throws unless the hand has exactly 3 cards
calculateScoreThrows(hand) == Len(hand) # 3

\* sum of CARD_VALUES over the cards of the hand that have suit s (the hand
\* has exactly 3 cards wherever calculateScore gets this far)
SuitSum(hand, s) ==
  LET Value(i) == IF SuitOf(hand[i]) = s THEN CARD_VALUES(RankOf(hand[i])) ELSE 0
  IN  Value(1) + Value(2) + Value(3)

\* a faulty variant: the suit sum of the first card's suit only
calculateScoreOfFirstSuit(hand) ==
  LET isThreeOfKind == RankOf(hand[1]) = RankOf(hand[2])
                       /\ RankOf(hand[2]) = RankOf(hand[3])
  IN  IF isThreeOfKind THEN 61 ELSE 2 * SuitSum(hand, SuitOf(hand[1]))

\* score in half points: three of a kind 30.5, else the running maximum of
\* the suit sums over SUITS starting from bestScore = 0, else (no suit sum
\* above 0) the single highest card
calculateScore(hand) ==
  LET isThreeOfKind == RankOf(hand[1]) = RankOf(hand[2])
                       /\ RankOf(hand[2]) = RankOf(hand[3])
      bestScore == SetMax({0} \cup {SuitSum(hand, s) : s \in SUITS})
      highest == SetMax({CARD_VALUES(RankOf(hand[i])) : i \in DOMAIN hand})
  IN  IF isThreeOfKind THEN 61
      ELSE IF bestScore = 0 THEN 2 * highest
      ELSE 2 * bestScore

hasThreeAces(hand) ==
  IF Len(hand) # 3 THEN FALSE
  ELSE \A i \in DOMAIN hand : RankOf(hand[i]) = ACE

getNextPlayerIndex(currentIndex, totalPlayers) == (currentIndex + 1) % totalPlayers

\* Array.prototype.findIndex, given the set of indices that satisfy the test
FindIndex(matching) == IF matching = {} THEN NONE ELSE SetMin(matching)

activePlayers(players) == {i \in DOMAIN players : ~players[i].isEliminated}

\* determineRoundResults maps calculateScore over ALL players in both of
\* its branches, so it throws as soon as any hand is not 3 cards long
determineRoundResultsThrows(players) ==
  \E i \in DOMAIN players : calculateScoreThrows(players[i].hand)

threeAcesPlayer(players) ==
  LET holders == {i \in activePlayers(players) : hasThreeAces(players[i].hand)}
  IN  IF holders = {} THEN NONE ELSE SetMin(holders)

\* loserIds of determineRoundResults
determineRoundResults(players) ==
  LET active == activePlayers(players)
      winner == threeAcesPlayer(players)
      minScore == SetMin({calculateScore(players[i].hand) : i \in active})
  IN  IF winner # NONE THEN active \ {winner}
      ELSE IF active = {} THEN {}
      ELSE {i \in active : calculateScore(players[i].hand) = minScore}

\* a faulty variant: an eliminated player is no longer marked as swimming
updatePlayerLivesClearsSwimming(players, loserIds) ==
  [i \in DOMAIN players |->
     LET player == players[i]
         newLives == player.lives - 1
     IN  IF i \in loserIds
         THEN IF player.isSwimming /\ newLives < 0
              THEN [player EXCEPT !.lives = 0, !.isSwimming = FALSE,
                                  !.isEliminated = TRUE]
              ELSE [player EXCEPT !.lives = IF newLives > 0 THEN newLives ELSE 0,
                                  !.isSwimming = (newLives = 0),
                                  !.isEliminated = FALSE]
         ELSE player]

\* a faulty variant: no second chance, a loser at 0 lives is eliminated at once
updatePlayerLivesNoSecondChance(players, loserIds) ==
  [i \in DOMAIN players |->
     LET player == players[i]
         newLives == player.lives - 1
     IN  IF i \in loserIds
         THEN IF newLives <= 0
              THEN [player EXCEPT !.lives = 0, !.isSwimming = TRUE,
                                  !.isEliminated = TRUE]
              ELSE [player EXCEPT !.lives = newLives,
                                  !.isSwimming = FALSE,
                                  !.isEliminated = FALSE]
         ELSE player]

updatePlayerLives(players, loserIds) ==
  [i \in DOMAIN players |->
     LET player == players[i]
         newLives == player.lives - 1
     IN  IF i \in loserIds
         THEN IF player.isSwimming /\ newLives < 0
              THEN [player EXCEPT !.lives = 0, !.isSwimming = TRUE,
                                  !.isEliminated = TRUE]
              ELSE [player EXCEPT !.lives = IF newLives > 0 THEN newLives ELSE 0,
                                  !.isSwimming = (newLives = 0),
                                  !.isEliminated = FALSE]
         ELSE player]

shouldGameEnd(players) == Cardinality(activePlayers(players)) <= 1

getNextDealerIndex(players, loserIds) ==
  LET losers == {i \in DOMAIN players : i \in loserIds /\ ~players[i].isEliminated}
      loserIndex == IF losers = {} THEN NONE ELSE SetMin(losers)
  IN  IF loserIndex < 0
      THEN FindIndex({i \in DOMAIN players : ~players[i].isEliminated})
      ELSE loserIndex

(***************************************************************************)
(* The room (server/index.ts).  The variables are the fields of the room's *)
(* GameState, the room's connections, the pending setTimeout callbacks,    *)
(* and what JavaScript's reference semantics adds to them:                 *)
(*  - handRef[p] / publicRef say whether the player's hand array / the     *)
(*    publicCards array IS the array dealerSets[0] ("set0") or             *)
(*    dealerSets[1] ("set1") (processDealerDecision assigns the arrays     *)
(*    themselves, and exchange-one writes into them in place), or an array *)
(*    no other field holds ("own");                                        *)
(*  - a pending AI-turn timer holds the player OBJECT it captured; ref     *)
(*    says where that object's hand array is now: "live" (the object is    *)
(*    still the one in gameState.players), "cur" (a replaced object that   *)
(*    shares the array of the player's current hand), "set0"/"set1"/"pub"  *)
(*    (it shares that array), or "frozen" (no field of the state holds the *)
(*    array any more, its contents are in hand).                           *)
(* crashed: an exception escaped a timer callback and ended the process.   *)
(* lastEvent: the message or callback handled last, the path it took and   *)
(* whether it ended in an exception.                                       *)
(* strays: how many client messages arrived so far in a phase in which the *)
(* client program does not send them (the server accepts them all the      *)
(* same); the exploration is bounded by MaxStrays of them.                 *)
(* acted: how many player actions passed the turn check since the last     *)
(* deal; the exploration is bounded by MaxActions of them per deal.        *)
(***************************************************************************)
VARIABLES players, publicCards, deck, currentPlayerIndex, dealerIndex, phase,
          roundNumber, dealerSets, seenSetIndex, playersWhoActedAfterClose,
          roundClosedByPlayerId, lastAction, handRef, publicRef, clients,
          timers, crashed, lastEvent, strays, acted

gameStateVars == <<players, publicCards, deck, currentPlayerIndex, dealerIndex,
                   phase, roundNumber, dealerSets, seenSetIndex,
                   playersWhoActedAfterClose, roundClosedByPlayerId, lastAction>>

vars == <<players, publicCards, deck, currentPlayerIndex, dealerIndex, phase,
          roundNumber, dealerSets, seenSetIndex, playersWhoActedAfterClose,
          roundClosedByPlayerId, lastAction, handRef, publicRef, clients,
          timers, crashed, lastEvent, strays, acted>>

NoSets == <<>>
NoAction == [playerId |-> NONE, action |-> "none"]

\* the room as one record, so that the handlers compose as the functions do
Room == [players |-> players, publicCards |-> publicCards, deck |-> deck,
         currentPlayerIndex |-> currentPlayerIndex, dealerIndex |-> dealerIndex,
         phase |-> phase, roundNumber |-> roundNumber, dealerSets |-> dealerSets,
         seenSetIndex |-> seenSetIndex,
         playersWhoActedAfterClose |-> playersWhoActedAfterClose,
         roundClosedByPlayerId |-> roundClosedByPlayerId,
         lastAction |-> lastAction, handRef |-> handRef, publicRef |-> publicRef,
         timers |-> timers, threw |-> FALSE, path |-> "", outcome |-> ""]

NumPlayers(st) == Cardinality(DOMAIN st.players)

(***************************************************************************)
(* Pending timers: a bag, as a function from timer to its multiplicity.    *)
(***************************************************************************)
TurnTimer(p) == [kind |-> "turn", playerId |-> p, ref |-> "live", hand |-> <<>>]
DealerTimer == [kind |-> "dealer", playerId |-> NONE, ref |-> "live", hand |-> <<>>]

RECURSIVE SumCounts(_, _)
SumCounts(T, S) ==
  IF S = {} THEN 0
  ELSE LET t == CHOOSE x \in S : TRUE IN T[t] + SumCounts(T, S \ {t})

TimerCount(T) == SumCounts(T, DOMAIN T)

AddTimer(T, t) ==
  IF t \in DOMAIN T THEN [T EXCEPT ![t] = @ + 1] ELSE T @@ (t :> 1)

RemoveTimer(T, t) ==
  IF T[t] > 1 THEN [T EXCEPT ![t] = @ - 1]
  ELSE [x \in (DOMAIN T) \ {t} |-> T[x]]

\* every pending timer t becomes f[t]
MapTimers(T, f) ==
  [u \in {f[t] : t \in DOMAIN T} |-> SumCounts(T, {t \in DOMAIN T : f[t] = u})]

Frozen(t, hand) == [t EXCEPT !.ref = "frozen", !.hand = hand]

\* the hand array a captured player object holds, read when the timer fires
CapturedHand(st, t) ==
  CASE t.ref \in {"live", "cur"} -> st.players[t.playerId].hand
    [] t.ref = "set0" -> st.dealerSets[1]
    [] t.ref = "set1" -> st.dealerSets[2]
    [] t.ref = "pub" -> st.publicCards
    [] OTHER -> t.hand

(***************************************************************************)
(* Arrays shared by reference: the class of an array names every field     *)
(* that holds it, and a write in place shows in all of them.               *)
(***************************************************************************)
HandClass(st, p) ==
  IF st.handRef[p] = "own" THEN <<"hand", p>> ELSE <<st.handRef[p], NONE>>

PublicClass(st) ==
  IF st.publicRef = "own" THEN <<"pub", NONE>> ELSE <<st.publicRef, NONE>>

ArrayWrite(st, class, idx, val) ==
  [st EXCEPT
     !.players = [q \in DOMAIN st.players |->
                    IF HandClass(st, q) = class
                    THEN [st.players[q] EXCEPT !.hand[idx] = val]
                    ELSE st.players[q]],
     !.publicCards = IF PublicClass(st) = class
                     THEN [st.publicCards EXCEPT ![idx] = val]
                     ELSE st.publicCards,
     !.dealerSets = IF class[1] = "set0"
                    THEN [st.dealerSets EXCEPT ![1][idx] = val]
                    ELSE IF class[1] = "set1"
                    THEN [st.dealerSets EXCEPT ![2][idx] = val]
                    ELSE st.dealerSets]

(***************************************************************************)
(* broadcastGameState sends every connected client the snapshot            *)
(* getPersonalizedGameState(state, client.playerId): the GameState with    *)
(* the hands of the other human players replaced, every other field as it  *)
(* is ({...state}).                                                        *)
(***************************************************************************)
\* a faulty variant: no hand is hidden
getPersonalizedGameStateShowsAll(st, playerId) ==
  [players |-> st.players, publicCards |-> st.publicCards, deck |-> st.deck,
   currentPlayerIndex |-> st.currentPlayerIndex, dealerIndex |-> st.dealerIndex,
   phase |-> st.phase, roundNumber |-> st.roundNumber,
   dealerSets |-> st.dealerSets, seenSetIndex |-> st.seenSetIndex,
   playersWhoActedAfterClose |-> st.playersWhoActedAfterClose,
   roundClosedByPlayerId |-> st.roundClosedByPlayerId,
   lastAction |-> st.lastAction]

getPersonalizedGameState(st, playerId) ==
  [players |-> [i \in DOMAIN st.players |->
                  IF i = playerId \/ st.players[i].isAI
                  THEN st.players[i]
                  ELSE [st.players[i] EXCEPT !.hand =
                          IF st.phase = "scoring" \/ st.phase = "round-end"
                          THEN st.players[i].hand ELSE <<>>]],
   publicCards |-> st.publicCards, deck |-> st.deck,
   currentPlayerIndex |-> st.currentPlayerIndex, dealerIndex |-> st.dealerIndex,
   phase |-> st.phase, roundNumber |-> st.roundNumber,
   dealerSets |-> st.dealerSets, seenSetIndex |-> st.seenSetIndex,
   playersWhoActedAfterClose |-> st.playersWhoActedAfterClose,
   roundClosedByPlayerId |-> st.roundClosedByPlayerId,
   lastAction |-> st.lastAction]

(***************************************************************************)
(* processNextTurn: skip eliminated players by recursion, then schedule    *)
(* the AI's turn.  With every player eliminated the recursion never ends:  *)
(* the call stack overflows (RangeError) at a depth the engine decides, so *)
(* currentPlayerIndex is then any seat.  The result is the set of possible *)
(* outcomes.                                                               *)
(***************************************************************************)
RECURSIVE processNextTurn(_)
processNextTurn(st) ==
  LET currentPlayer == st.players[st.currentPlayerIndex]
  IN  IF activePlayers(st.players) = {}
      THEN {[st EXCEPT !.threw = TRUE, !.currentPlayerIndex = k] :
              k \in DOMAIN st.players}
      ELSE IF currentPlayer.isEliminated
      THEN processNextTurn(
             [st EXCEPT !.currentPlayerIndex =
                          getNextPlayerIndex(st.currentPlayerIndex, NumPlayers(st))])
      ELSE IF currentPlayer.isAI /\ st.phase \in {"playing", "last-round"}
      THEN {[st EXCEPT !.timers = AddTimer(st.timers, TurnTimer(st.currentPlayerIndex))]}
      ELSE {st}

(***************************************************************************)
(* finishRound.  determineRoundResults may throw, which leaves phase at    *)
(* "scoring".  Both maps build new player objects that keep the hand       *)
(* arrays, so a timer that captured an old object now shares the array.    *)
(***************************************************************************)
finishRound(st) ==
  LET s1 == [st EXCEPT !.phase = "scoring"]
      loserIds == determineRoundResults(s1.players)
      lived == updatePlayerLives(s1.players, loserIds)
      nextDealer == getNextDealerIndex(lived, loserIds)
      renamed == [i \in DOMAIN lived |->
                    [lived[i] EXCEPT !.isDealer = (i = nextDealer)]]
      Stale(t) == IF t.kind = "turn" /\ t.ref = "live"
                  THEN [t EXCEPT !.ref = IF s1.handRef[t.playerId] = "own"
                                         THEN "cur"
                                         ELSE s1.handRef[t.playerId]]
                  ELSE t
  IN  IF determineRoundResultsThrows(s1.players)
      THEN [s1 EXCEPT !.threw = TRUE]
      ELSE [s1 EXCEPT !.players = renamed,
                      !.dealerIndex = nextDealer,
                      !.timers = MapTimers(s1.timers, [t \in DOMAIN s1.timers |-> Stale(t)]),
                      !.phase = IF shouldGameEnd(renamed) THEN "game-end"
                                ELSE "round-end"]

(***************************************************************************)
(* dealCards on an already shuffled deck (shuffleDeck's result is an input *)
(* of the step): 3 cards to every non-dealer, non-eliminated player in     *)
(* seating order, two sets of 3 for a non-eliminated dealer, the rest is   *)
(* the deck.                                                               *)
(***************************************************************************)
\* a faulty variant: eliminated players are dealt a hand, too
DealtSeatsWithEliminated(ps) == {i \in DOMAIN ps : ~ps[i].isDealer}

DealtSeats(ps) == {i \in DOMAIN ps : ~ps[i].isDealer /\ ~ps[i].isEliminated}

\* a faulty variant: every hand is cut from the top of the deck
DealtBeforeNone(ps, i) == 0

\* how many players were dealt a hand before seat i
DealtBefore(ps, i) == Cardinality({j \in DealtSeats(ps) : j < i})

dealCards(ps, shuffled) ==
  LET handsEnd == 3 * Cardinality(DealtSeats(ps))
      dealer == FindIndex({i \in DOMAIN ps : ps[i].isDealer})
      dealsSets == dealer # NONE /\ ~ps[dealer].isEliminated
      currentIndex == IF dealsSets THEN handsEnd + 6 ELSE handsEnd
  IN  [deck |-> SubSeq(shuffled, currentIndex + 1, Len(shuffled)),
       playerHands |-> [i \in DealtSeats(ps) |->
                          SubSeq(shuffled, 3 * DealtBefore(ps, i) + 1,
                                 3 * DealtBefore(ps, i) + 3)],
       dealerSets |-> IF dealsSets
                      THEN <<SubSeq(shuffled, handsEnd + 1, handsEnd + 3),
                             SubSeq(shuffled, handsEnd + 4, handsEnd + 6)>>
                      ELSE <<<<>>, <<>>>>]

(***************************************************************************)
(* startDealingPhase.  Every player object and every hand array is new;    *)
(* publicCards is not touched (it keeps the previous deal's array).  With  *)
(* dealerIndex = -1 the read of dealer.isAI throws after the deal is done. *)
(***************************************************************************)
startDealingPhase(st, shuffled, seen) ==
  LET reset == [i \in DOMAIN st.players |->
                  [st.players[i] EXCEPT !.hand = <<>>, !.hasClosedRound = FALSE]]
      dealt == dealCards(reset, shuffled)
      assigned == [i \in DOMAIN reset |->
                     IF reset[i].isDealer THEN reset[i]
                     ELSE [reset[i] EXCEPT !.hand =
                             IF i \in DOMAIN dealt.playerHands
                             THEN dealt.playerHands[i] ELSE <<>>]]
      OldSet(k) == st.dealerSets[k + 1]
      Stale(t) ==
        IF t.kind # "turn" THEN t
        ELSE CASE t.ref \in {"live", "cur"} ->
                    IF st.handRef[t.playerId] # "own"
                       /\ st.handRef[t.playerId] = st.publicRef
                    THEN [t EXCEPT !.ref = "pub"]
                    ELSE Frozen(t, st.players[t.playerId].hand)
               [] t.ref = "set0" ->
                    IF st.publicRef = "set0" THEN [t EXCEPT !.ref = "pub"]
                    ELSE Frozen(t, OldSet(0))
               [] t.ref = "set1" ->
                    IF st.publicRef = "set1" THEN [t EXCEPT !.ref = "pub"]
                    ELSE Frozen(t, OldSet(1))
               [] OTHER -> t
      s1 == [st EXCEPT !.roundNumber = st.roundNumber + 1,
                       !.players = assigned,
                       !.deck = dealt.deck,
                       !.dealerSets = dealt.dealerSets,
                       !.playersWhoActedAfterClose = {},
                       !.roundClosedByPlayerId = NONE,
                       !.seenSetIndex = seen,
                       !.phase = "dealer-decision",
                       !.handRef = [i \in DOMAIN st.players |-> "own"],
                       !.publicRef = "own",
                       !.timers = MapTimers(st.timers, [t \in DOMAIN st.timers |-> Stale(t)])]
  IN  IF s1.dealerIndex = NONE
      THEN [s1 EXCEPT !.threw = TRUE]
      ELSE IF s1.players[s1.dealerIndex].isAI
      THEN [s1 EXCEPT !.timers = AddTimer(s1.timers, DealerTimer)]
      ELSE s1

(***************************************************************************)
(* processDealerDecision.  The dealer's new player object holds the kept   *)
(* set's array itself and publicCards the other set's; dealerSets and      *)
(* seenSetIndex are left as they are.                                      *)
(***************************************************************************)
SetRef(k) == IF k = 0 THEN "set0" ELSE "set1"

\* the body below the guard, for the set the dealer keeps
assignDealerSets(st, kept, path) ==
  LET keptSet == st.dealerSets[kept + 1]
      publicSet == st.dealerSets[(1 - kept) + 1]
      Stale(t) ==
        IF t.kind # "turn" THEN t
        ELSE CASE t.ref \in {"live", "cur"} /\ st.players[t.playerId].isDealer ->
                    IF st.handRef[t.playerId] = "own"
                    THEN Frozen(t, st.players[t.playerId].hand)
                    ELSE [t EXCEPT !.ref = st.handRef[t.playerId]]
               [] t.ref = "pub" -> Frozen(t, st.publicCards)
               [] OTHER -> t
      s1 == [st EXCEPT
               !.players = [i \in DOMAIN st.players |->
                              IF st.players[i].isDealer
                              THEN [st.players[i] EXCEPT !.hand = keptSet]
                              ELSE st.players[i]],
               !.handRef = [i \in DOMAIN st.players |->
                              IF st.players[i].isDealer THEN SetRef(kept)
                              ELSE st.handRef[i]],
               !.publicCards = publicSet,
               !.publicRef = SetRef(1 - kept),
               !.timers = MapTimers(st.timers, [t \in DOMAIN st.timers |-> Stale(t)]),
               !.phase = "playing",
               !.currentPlayerIndex =
                  getNextPlayerIndex(st.dealerIndex, NumPlayers(st)),
               !.path = path]
  IN  {[r EXCEPT !.outcome = "decided"] : r \in processNextTurn(s1)}

\* a faulty variant: keepSeenSet is ignored and the seen set always kept
processDealerDecisionKeepsSeen(st, keepSeenSet) ==
  IF st.dealerSets = NoSets \/ st.seenSetIndex = NONE
  THEN {[st EXCEPT !.path = "no-sets", !.outcome = "returned"]}
  ELSE assignDealerSets(st, st.seenSetIndex, IF keepSeenSet THEN "keep" ELSE "switch")

processDealerDecision(st, keepSeenSet) ==
  IF st.dealerSets = NoSets \/ st.seenSetIndex = NONE
  THEN {[st EXCEPT !.path = "no-sets", !.outcome = "returned"]}
  ELSE assignDealerSets(st, IF keepSeenSet THEN st.seenSetIndex
                            ELSE 1 - st.seenSetIndex,
                        IF keepSeenSet THEN "keep" ELSE "switch")

(***************************************************************************)
(* processPlayerAction.  NoCard is an omitted (undefined) card argument.   *)
(***************************************************************************)
\* position of card c in the array, NONE when findIndex finds none
IndexOf(arr, c) ==
  IF \E i \in DOMAIN arr : arr[i] = c
  THEN SetMin({i \in DOMAIN arr : arr[i] = c})
  ELSE NONE

\* player.hand[handIndex] = publicCards[publicIndex]; publicCards[publicIndex] = temp
exchangeOne(st, p, handIndex, publicIndex) ==
  LET temp == st.players[p].hand[handIndex]
      s1 == ArrayWrite(st, HandClass(st, p), handIndex, st.publicCards[publicIndex])
  IN  ArrayWrite(s1, PublicClass(s1), publicIndex, temp)

\* player.hand = [...publicCards]; publicCards = [...oldHand]: two new arrays
exchangeAll(st, p) ==
  LET Stale(t) ==
        IF t.kind # "turn" THEN t
        ELSE CASE t.ref = "cur" /\ t.playerId = p -> Frozen(t, st.players[p].hand)
               [] t.ref = "pub" -> Frozen(t, st.publicCards)
               [] OTHER -> t
  IN  [st EXCEPT !.players[p].hand = st.publicCards,
                 !.publicCards = st.players[p].hand,
                 !.handRef[p] = "own",
                 !.publicRef = "own",
                 !.timers = MapTimers(st.timers, [t \in DOMAIN st.timers |-> Stale(t)])]

closeRound(st, p) ==
  [st EXCEPT !.phase = "last-round",
             !.roundClosedByPlayerId = p,
             !.players[p].hasClosedRound = TRUE]

\* the first if/else-if chain of processPlayerAction
applyAction(st, p, action, cardToExchange, publicCardToTake) ==
  LET handIndex == IndexOf(st.players[p].hand, cardToExchange)
      publicIndex == IndexOf(st.publicCards, publicCardToTake)
  IN  IF action = "skip" THEN [st EXCEPT !.path = "skip"]
      ELSE IF action = "exchange-one" /\ cardToExchange # NoCard
              /\ publicCardToTake # NoCard
      THEN IF handIndex >= 0 /\ publicIndex >= 0
           THEN [exchangeOne(st, p, handIndex, publicIndex)
                   EXCEPT !.path = "exchange-one"]
           ELSE [st EXCEPT !.path = "exchange-one-dropped"]
      ELSE IF action = "exchange-all"
      THEN [exchangeAll(st, p) EXCEPT !.path = "exchange-all"]
      ELSE IF action = "close-round"
      THEN [closeRound(st, p) EXCEPT !.path = "close-round"]
      ELSE [st EXCEPT !.path = "exchange-one-dropped"]

\* a faulty variant: only the seat next to the closer
getPlayersAfterRoundCloserNextOnly(st) ==
  LET closerIndex == IF st.roundClosedByPlayerId \in DOMAIN st.players
                     THEN st.roundClosedByPlayerId ELSE NONE
  IN  IF closerIndex < 0 THEN {}
      ELSE {getNextPlayerIndex(closerIndex, NumPlayers(st))}

\* the seats the while loop collects: every seat but the closer's
getPlayersAfterRoundCloser(st) ==
  LET closerIndex == IF st.roundClosedByPlayerId \in DOMAIN st.players
                     THEN st.roundClosedByPlayerId ELSE NONE
  IN  IF closerIndex < 0 THEN {}
      ELSE (DOMAIN st.players) \ {closerIndex}

\* processPlayerAction below its two guards
takeTurn(st, playerId, action, cardToExchange, publicCardToTake) ==
  LET s1 == applyAction(st, playerId, action, cardToExchange, publicCardToTake)
      s2 == [s1 EXCEPT !.lastAction = [playerId |-> playerId, action |-> action]]
      s3 == IF s2.phase = "last-round"
            THEN [s2 EXCEPT !.playersWhoActedAfterClose = @ \cup {playerId}]
            ELSE s2
      allActed == s3.phase = "last-round"
                  /\ getPlayersAfterRoundCloser(s3) \subseteq s3.playersWhoActedAfterClose
      s4 == [s3 EXCEPT !.currentPlayerIndex =
                         getNextPlayerIndex(s3.currentPlayerIndex, NumPlayers(s3))]
      Done(r, how) == [r EXCEPT !.outcome = how]
  IN  IF hasThreeAces(s1.players[playerId].hand)
      THEN {Done(finishRound(s1), "three-aces")}
      ELSE IF allActed
      THEN {Done(finishRound(s3), "all-acted")}
      ELSE {Done(r, "advanced") : r \in processNextTurn(s4)}

\* a faulty variant: the turn check is missing
processPlayerActionAnyTurn(st, playerId, action, cardToExchange, publicCardToTake) ==
  IF st.players[playerId].isEliminated
  THEN {[st EXCEPT !.path = "eliminated", !.outcome = "returned"]}
  ELSE takeTurn(st, playerId, action, cardToExchange, publicCardToTake)

processPlayerAction(st, playerId, action, cardToExchange, publicCardToTake) ==
  IF playerId # st.currentPlayerIndex
  THEN {[st EXCEPT !.path = "not-your-turn", !.outcome = "returned"]}
  ELSE IF st.players[playerId].isEliminated
  THEN {[st EXCEPT !.path = "eliminated", !.outcome = "returned"]}
  ELSE takeTurn(st, playerId, action, cardToExchange, publicCardToTake)

(***************************************************************************)
(* AI strategy (src/utils/aiStrategy.ts).  Math.random() is an input: the  *)
(* operators return the set of results over its outcomes.                  *)
(***************************************************************************)
getAIActionThrows(hand, public) ==
  calculateScoreThrows(hand)
  \/ (~hasThreeAces(hand) /\ calculateScoreThrows(public))

\* evaluateExchangeOne: the first (hand position, public card) pair, hand
\* positions outermost, whose score is the highest and above the current one
evaluateExchangeOne(hand, public) ==
  LET pairs == {<<i, j>> : i \in DOMAIN hand, j \in DOMAIN public}
      scoreOf == [pr \in pairs |->
                    calculateScore([hand EXCEPT ![pr[1]] = public[pr[2]]])]
      Order(pr) == (pr[1] - 1) * Len(public) + pr[2]
      current == calculateScore(hand)
      best == SetMax({current} \cup {scoreOf[pr] : pr \in pairs})
      winners == {pr \in pairs : scoreOf[pr] = best}
      first == CHOOSE pr \in winners : \A qr \in winners : Order(pr) <= Order(qr)
  IN  IF best > current
      THEN [bestCard |-> hand[first[1]], bestPublicCard |-> public[first[2]],
            expectedScore |-> best]
      ELSE [bestCard |-> NoCard, bestPublicCard |-> NoCard, expectedScore |-> current]

\* expectedScore * confidence in IEEE doubles.  The products of two
\* evaluations differ by far more than a rounding error unless they are
\* equal as decimals, and then the doubles compare as their rounding does:
\* below (-1), at (0) or above (+1) the double nearest the decimal product.
RoundsDown ==
  {<<14, 70>>, <<14, 95>>, <<18, 30>>, <<18, 60>>, <<18, 95>>, <<22, 70>>,
   <<24, 30>>, <<24, 70>>, <<24, 60>>, <<24, 95>>, <<28, 70>>, <<28, 95>>,
   <<34, 70>>, <<36, 30>>, <<36, 60>>, <<36, 95>>, <<38, 70>>, <<44, 70>>,
   <<46, 30>>, <<46, 70>>, <<46, 60>>, <<46, 95>>, <<48, 30>>, <<48, 70>>,
   <<48, 60>>, <<48, 95>>, <<56, 70>>, <<56, 95>>, <<58, 70>>, <<58, 95>>,
   <<62, 30>>, <<62, 60>>, <<66, 70>>, <<66, 95>>, <<61, 70>>, <<61, 95>>}

RoundsUp == {<<26, 90>>, <<42, 90>>, <<52, 90>>, <<62, 90>>}

Product(score, confidence) ==
  4 * score * confidence
  + (IF <<score, confidence>> \in RoundsDown THEN -1
     ELSE IF <<score, confidence>> \in RoundsUp THEN 1 ELSE 0)

\* evaluations.sort((a, b) => scoreB - scoreA): descending, stable
SortedEvaluations(evals) ==
  LET Key(i) == Product(evals[i].expectedScore, evals[i].confidence)
      Before(i, j) == Key(i) > Key(j) \/ (Key(i) = Key(j) /\ i < j)
      Rank(i) == 1 + Cardinality({j \in DOMAIN evals : Before(j, i)})
  IN  [k \in DOMAIN evals |-> evals[CHOOSE i \in DOMAIN evals : Rank(i) = k]]

getAIAction(hand, public, hasFirstRoundCompleted, isLastRound) ==
  LET currentScore == calculateScore(hand)
      exchangeOneResult == evaluateExchangeOne(hand, public)
      exchangeAllScore == calculateScore(public)
      base == << [action |-> "skip", expectedScore |-> currentScore,
                  confidence |-> IF currentScore >= 56 THEN 90 ELSE 30],
                 [action |-> "exchange-one",
                  expectedScore |-> exchangeOneResult.expectedScore,
                  confidence |-> IF exchangeOneResult.bestCard # NoCard THEN 70 ELSE 0],
                 [action |-> "exchange-all", expectedScore |-> exchangeAllScore,
                  confidence |-> 60] >>
      close == [action |-> "close-round", expectedScore |-> currentScore,
                confidence |-> IF currentScore >= 58 THEN 95 ELSE 70]
      \* shouldClose over the outcomes of Math.random() > 0.5
      shouldClose == IF currentScore >= 54 THEN {TRUE}
                     ELSE IF currentScore >= 48 THEN {TRUE, FALSE}
                     ELSE {FALSE}
      evaluations == IF hasFirstRoundCompleted /\ ~isLastRound
                     THEN {IF c THEN Append(base, close) ELSE base : c \in shouldClose}
                     ELSE {base}
      \* Math.random() < 0.85 ? best : runner-up
      chosen == UNION {{SortedEvaluations(e)[1], SortedEvaluations(e)[2]} :
                         e \in evaluations}
      Decision(ev) ==
        IF ev.action = "exchange-one" /\ exchangeOneResult.bestCard # NoCard
           /\ exchangeOneResult.bestPublicCard # NoCard
        THEN [action |-> "exchange-one",
              cardToExchange |-> exchangeOneResult.bestCard,
              publicCardToTake |-> exchangeOneResult.bestPublicCard]
        ELSE [action |-> ev.action, cardToExchange |-> NoCard,
              publicCardToTake |-> NoCard]
  IN  IF hasThreeAces(hand)
      THEN {[action |-> "skip", cardToExchange |-> NoCard, publicCardToTake |-> NoCard]}
      ELSE {Decision(ev) : ev \in chosen}

\* keepSeenSet of getAIDealerDecision, over the outcomes of Math.random() > 0.4
getAIDealerDecision(seenSet) ==
  LET seenScore == calculateScore(seenSet)
  IN  IF hasThreeAces(seenSet) THEN {TRUE}
      ELSE IF seenScore >= 58 THEN {TRUE}
      ELSE IF seenScore >= 50 THEN {TRUE}
      ELSE IF seenScore >= 40 THEN {TRUE, FALSE}
      ELSE {FALSE}

(***************************************************************************)
(* Inputs.                                                                 *)
(***************************************************************************)
\* create-game configurations
Configs == {[humanPlayers |-> 1, aiPlayers |-> 1, startingLives |-> 1],
            [humanPlayers |-> 1, aiPlayers |-> 2, startingLives |-> 1],
            [humanPlayers |-> 2, aiPlayers |-> 1, startingLives |-> 1]}

\* a permutation of the deck that begins with the given cards
Shuffled(prefix) ==
  prefix \o SelectSeq(createDeck, LAMBDA c : c \notin Range(prefix))

\* results of shuffleDeck, by their first twelve cards (four groups of 3):
\*  - (10h 7d 8c) (Jh 8d 9c) (Qh 9d 7c) (Kh 7s 10c): every group scores 10;
\*  - (7c Ah Ad) 11, (8h 8d 8c) three of a kind, (Ac 8s 9s) 17, (Ks Qs 9h) 20:
\*    the first group is one exchange away from three aces.
Shuffles ==
  {Shuffled(<<4, 9, 18, 5, 10, 19, 6, 11, 17, 7, 25, 20>>),
   Shuffled(<<17, 8, 16, 2, 10, 18, 24, 26, 27, 31, 30, 3>>)}

Actions == {"skip", "exchange-one", "exchange-all", "close-round"}

\* card arguments of a player-action message: one of the first MaxPick
\* cards of the sender's hand / of publicCards, a card that is in neither
\* (the top of the deck), or none
Picks(arr) == {arr[i] : i \in (DOMAIN arr) \cap (1 .. MaxPick)}

ForeignCards(st) == IF st.deck = <<>> THEN {} ELSE {st.deck[1]}

CardArguments(st, p, action) ==
  IF action # "exchange-one" THEN {<<NoCard, NoCard>>} ELSE
  {<<h, c>> : h \in Picks(st.players[p].hand), c \in Picks(st.publicCards)}
  \cup {<<f, c>> : f \in ForeignCards(st), c \in Picks(st.publicCards)}
  \cup {<<h, f>> : h \in Picks(st.players[p].hand), f \in ForeignCards(st)}
  \cup {<<NoCard, NoCard>>}

(***************************************************************************)
(* The state after create-game: createGameRoom, and the creator's          *)
(* connection bound to players[0].                                         *)
(***************************************************************************)
createGameRoom(config) ==
  [i \in 0 .. (config.humanPlayers + config.aiPlayers - 1) |->
     [isAI |-> i >= config.humanPlayers,
      lives |-> config.startingLives,
      hand |-> <<>>,
      isSwimming |-> FALSE,
      isEliminated |-> FALSE,
      isDealer |-> (i = 0 /\ config.humanPlayers > 0),
      hasClosedRound |-> FALSE]]

Event(type, playerId, path, outcome, threw) ==
  [type |-> type, playerId |-> playerId, path |-> path, outcome |-> outcome,
   threw |-> threw]

Init ==
  \E config \in Configs :
    /\ players = createGameRoom(config)
    /\ publicCards = <<>>
    /\ deck = createDeck
    /\ currentPlayerIndex = 0
    /\ dealerIndex = 0
    /\ phase = "setup"
    /\ roundNumber = 0
    /\ dealerSets = NoSets
    /\ seenSetIndex = NONE
    /\ playersWhoActedAfterClose = {}
    /\ roundClosedByPlayerId = NONE
    /\ lastAction = NoAction
    /\ handRef = [i \in DOMAIN createGameRoom(config) |-> "own"]
    /\ publicRef = "own"
    /\ clients = {0}
    /\ timers = <<>>
    /\ crashed = FALSE
    /\ lastEvent = Event("create-game", 0, "", "created", FALSE)
    /\ strays = 0
    /\ acted = 0

\* the handler's result becomes the room
Store(r) ==
  /\ players' = r.players
  /\ publicCards' = r.publicCards
  /\ deck' = r.deck
  /\ currentPlayerIndex' = r.currentPlayerIndex
  /\ dealerIndex' = r.dealerIndex
  /\ phase' = r.phase
  /\ roundNumber' = r.roundNumber
  /\ dealerSets' = r.dealerSets
  /\ seenSetIndex' = r.seenSetIndex
  /\ playersWhoActedAfterClose' = r.playersWhoActedAfterClose
  /\ roundClosedByPlayerId' = r.roundClosedByPlayerId
  /\ lastAction' = r.lastAction
  /\ handRef' = r.handRef
  /\ publicRef' = r.publicRef
  /\ timers' = r.timers

\* a client message is handled inside try/catch: an exception is answered
\* with an error message and the process goes on
Handled(type, c, r) ==
  /\ TimerCount(r.timers) <= MaxTimers
  /\ Store(r)
  /\ lastEvent' = Event(type, c, r.path, r.outcome, r.threw)
  /\ UNCHANGED <<clients, crashed>>

\* an action that passes the turn check counts towards MaxActions
Counts(r) ==
  IF r.path \in {"not-your-turn", "eliminated"}
  THEN UNCHANGED acted
  ELSE acted < MaxActions /\ acted' = acted + 1

\* the phases in which the client program sends a message of the type
ExpectedPhases(type) ==
  CASE type = "start-round" -> {"setup"}
    [] type = "continue-game" -> {"round-end"}
    [] type = "dealer-decision" -> {"dealer-decision"}
    [] type = "player-action" -> {"playing", "last-round"}

\* a message the client program sends in the current state, or one more
\* that it does not
Arrives(expected) ==
  IF expected
  THEN UNCHANGED strays
  ELSE strays < MaxStrays /\ strays' = strays + 1

\* a timer callback has no handler around it: an exception ends the process
Fired(type, p, r) ==
  /\ Store(r)
  /\ lastEvent' = Event(type, p, r.path, r.outcome, r.threw)
  /\ crashed' = r.threw
  /\ UNCHANGED <<clients, strays>>

(***************************************************************************)
(* Client messages (wss.on('connection') / ws.on('message')).  The sender  *)
(* is the connection bound to seat c.                                      *)
(***************************************************************************)
Dealt(r) == [r EXCEPT !.outcome = "dealt"]

StartRound(c) ==
  /\ ~crashed /\ c \in clients /\ roundNumber < MaxRounds
  /\ Arrives(phase \in ExpectedPhases("start-round"))
  /\ acted' = 0
  /\ \E shuffled \in Shuffles, seen \in {0, 1} :
       Handled("start-round", NONE, Dealt(startDealingPhase(Room, shuffled, seen)))

ContinueGame(c) ==
  /\ ~crashed /\ c \in clients /\ roundNumber < MaxRounds
  /\ Arrives(phase \in ExpectedPhases("continue-game"))
  /\ acted' = 0
  /\ \E shuffled \in Shuffles, seen \in {0, 1} :
       Handled("continue-game", NONE, Dealt(startDealingPhase(Room, shuffled, seen)))

DealerDecision(c, keepSeenSet) ==
  /\ ~crashed /\ c \in clients
  /\ Arrives(phase \in ExpectedPhases("dealer-decision") /\ c = dealerIndex)
  /\ \E r \in processDealerDecision(Room, keepSeenSet) :
       Handled("dealer-decision", c, r)
  /\ UNCHANGED acted

PlayerAction(c, action, cardToExchange, publicCardToTake) ==
  /\ ~crashed /\ c \in clients
  /\ Arrives(phase \in ExpectedPhases("player-action")
             /\ c = currentPlayerIndex /\ ~players[c].isEliminated)
  /\ \E r \in processPlayerAction(Room, c, action, cardToExchange, publicCardToTake) :
       Handled("player-action", c, r) /\ Counts(r)

(***************************************************************************)
(* join-game.  The room's id is a base-36 string (digits and lower-case    *)
(* letters); the id of the message is lower-cased and looked up in rooms,  *)
(* which holds this room only.  lastEvent.path is the id as it was sent.   *)
(***************************************************************************)
RoomId == <<"a", "b", "1">>

\* a faulty variant: the id is looked up as it was sent
toLowerCaseAsSent(chars) == chars

toLowerCase(chars) ==
  [i \in DOMAIN chars |->
     CASE chars[i] = "A" -> "a"
       [] chars[i] = "B" -> "b"
       [] OTHER -> chars[i]]

\* the room ids of join-game messages: the id, the id in upper case, the id
\* in mixed case and the id of no room
RoomIdArguments ==
  {[text |-> "ab1", chars |-> <<"a", "b", "1">>],
   [text |-> "AB1", chars |-> <<"A", "B", "1">>],
   [text |-> "Ab1", chars |-> <<"A", "b", "1">>],
   [text |-> "ab2", chars |-> <<"a", "b", "2">>]}

\* the first human seat without a connection is bound to the sender
JoinGame(roomId) ==
  /\ ~crashed
  /\ LET free == {i \in DOMAIN players : ~players[i].isAI /\ i \notin clients}
     IN  IF toLowerCase(roomId.chars) # RoomId
         THEN /\ lastEvent' = Event("join-game", NONE, roomId.text, "room-not-found", FALSE)
              /\ Arrives(FALSE)
              /\ UNCHANGED clients
         ELSE IF free = {}
         THEN /\ lastEvent' = Event("join-game", NONE, roomId.text, "room-is-full", FALSE)
              /\ Arrives(FALSE)
              /\ UNCHANGED clients
         ELSE /\ clients' = clients \cup {SetMin(free)}
              /\ lastEvent' = Event("join-game", SetMin(free), roomId.text, "joined", FALSE)
              /\ Arrives(TRUE)
  /\ UNCHANGED <<gameStateVars, handRef, publicRef, timers, crashed, acted>>

\* a message JSON.parse rejects
MalformedMessage ==
  /\ ~crashed
  /\ lastEvent' = Event("malformed", NONE, "", "", TRUE)
  /\ Arrives(FALSE)
  /\ UNCHANGED <<gameStateVars, handRef, publicRef, timers, crashed, clients, acted>>

(***************************************************************************)
(* Timer callbacks.                                                        *)
(***************************************************************************)
\* the callback scheduled by processNextTurn
AITurn(t) ==
  /\ ~crashed /\ t \in DOMAIN timers /\ t.kind = "turn"
  /\ LET st == [Room EXCEPT !.timers = RemoveTimer(timers, t)]
         hand == CapturedHand(st, t)
         hasFirstRoundCompleted ==
           st.roundNumber > 0 \/ st.currentPlayerIndex >= NumPlayers(st)
     IN  IF getAIActionThrows(hand, st.publicCards)
         THEN Fired("ai-turn", t.playerId, [st EXCEPT !.threw = TRUE,
                                                      !.path = "get-ai-action"])
              /\ UNCHANGED acted
         ELSE \E d \in getAIAction(hand, st.publicCards, hasFirstRoundCompleted,
                                   st.phase = "last-round") :
                \E r \in processPlayerAction(st, t.playerId, d.action,
                                             d.cardToExchange, d.publicCardToTake) :
                  Fired("ai-turn", t.playerId, r) /\ Counts(r)

\* a faulty variant: the callback returns without deciding
AIDealerReturns(t) ==
  /\ ~crashed /\ t \in DOMAIN timers /\ t.kind = "dealer"
  /\ UNCHANGED acted
  /\ Fired("ai-dealer", NONE,
           [Room EXCEPT !.timers = RemoveTimer(timers, t),
                        !.path = "no-sets", !.outcome = "returned"])

\* the callback scheduled by startDealingPhase: handleAIDealerDecision
AIDealer(t) ==
  /\ ~crashed /\ t \in DOMAIN timers /\ t.kind = "dealer"
  /\ UNCHANGED acted
  /\ LET st == [Room EXCEPT !.timers = RemoveTimer(timers, t)]
     IN  IF st.dealerSets = NoSets \/ st.seenSetIndex = NONE
         THEN Fired("ai-dealer", NONE, [st EXCEPT !.path = "no-sets",
                                                  !.outcome = "returned"])
         ELSE IF calculateScoreThrows(st.dealerSets[st.seenSetIndex + 1])
         THEN Fired("ai-dealer", NONE, [st EXCEPT !.threw = TRUE,
                                                 !.path = "get-ai-dealer-decision"])
         ELSE \E keepSeenSet \in getAIDealerDecision(st.dealerSets[st.seenSetIndex + 1]) :
                \E r \in processDealerDecision(st, keepSeenSet) :
                  Fired("ai-dealer", NONE, r)

Next ==
  \/ \E c \in clients : StartRound(c)
  \/ \E c \in clients : ContinueGame(c)
  \/ \E c \in clients, keepSeenSet \in BOOLEAN : DealerDecision(c, keepSeenSet)
  \/ \E c \in clients, action \in Actions :
       \E cards \in CardArguments(Room, c, action) :
         PlayerAction(c, action, cards[1], cards[2])
  \/ \E roomId \in RoomIdArguments : JoinGame(roomId)
  \/ MalformedMessage
  \/ \E t \in DOMAIN timers : AITurn(t)
  \/ \E t \in DOMAIN timers : AIDealer(t)

Spec == Init /\ [][Next]_vars

\* a timer set with setTimeout runs its callback as long as the process lives
LiveSpec == Init /\ [][Next]_vars /\ WF_vars(\E t \in DOMAIN timers : AIDealer(t))

(***************************************************************************)
(* updatePlayerLives on its own: the players are drawn from the states a   *)
(* player can be in (lives 1 .. MaxLives and not swimming, 0 lives and     *)
(* swimming, eliminated) and any set of seats loses.                       *)
(***************************************************************************)
PlayerStatuses ==
  {[lives |-> l, isSwimming |-> (l = 0), isEliminated |-> FALSE] : l \in 0 .. MaxLives}
  \cup {[lives |-> 0, isSwimming |-> TRUE, isEliminated |-> TRUE]}

LivesInit ==
  \E status \in [0 .. 2 -> PlayerStatuses] :
    LET created == createGameRoom([humanPlayers |-> 1, aiPlayers |-> 2,
                                   startingLives |-> MaxLives])
    IN  /\ players = [i \in DOMAIN created |->
                        [created[i] EXCEPT !.lives = status[i].lives,
                                           !.isSwimming = status[i].isSwimming,
                                           !.isEliminated = status[i].isEliminated]]
        /\ publicCards = <<>>
        /\ deck = createDeck
        /\ currentPlayerIndex = 0
        /\ dealerIndex = 0
        /\ phase = "scoring"
        /\ roundNumber = 1
        /\ dealerSets = NoSets
        /\ seenSetIndex = NONE
        /\ playersWhoActedAfterClose = {}
        /\ roundClosedByPlayerId = NONE
        /\ lastAction = NoAction
        /\ handRef = [i \in DOMAIN created |-> "own"]
        /\ publicRef = "own"
        /\ clients = {0}
        /\ timers = <<>>
        /\ crashed = FALSE
        /\ lastEvent = Event("players", NONE, "", "", FALSE)
        /\ strays = 0
        /\ acted = 0

UpdatePlayerLives(loserIds) ==
  /\ players' = updatePlayerLives(players, loserIds)
  /\ lastEvent' = Event("update-player-lives", NONE, "", "", FALSE)
  /\ UNCHANGED <<publicCards, deck, currentPlayerIndex, dealerIndex, phase,
                 roundNumber, dealerSets, seenSetIndex, playersWhoActedAfterClose,
                 roundClosedByPlayerId, lastAction, handRef, publicRef, clients,
                 timers, crashed, strays, acted>>

LivesNext == \E loserIds \in SUBSET (DOMAIN players) : UpdatePlayerLives(loserIds)

LivesSpec == LivesInit /\ [][LivesNext]_vars

(***************************************************************************)
(* calculateScore on its own: the hand of seat 0 is any three distinct     *)
(* cards of the deck, taken in every order; lastEvent carries the score    *)
(* that calculateScore returns for the hand.                               *)
(***************************************************************************)
Scored(type, hand) ==
  [type |-> type, playerId |-> 0, path |-> "", outcome |-> "", threw |-> FALSE,
   score |-> calculateScore(hand)]

Reordered(hand, p) == [i \in 1 .. 3 |-> hand[p[i]]]

ScoreInit ==
  \E hand \in {h \in Range(createDeck) \X Range(createDeck) \X Range(createDeck) :
                 h[1] < h[2] /\ h[2] < h[3]} :
    LET created == createGameRoom([humanPlayers |-> 1, aiPlayers |-> 0,
                                   startingLives |-> 1])
    IN  /\ players = [created EXCEPT ![0].hand = hand]
        /\ publicCards = <<>>
        /\ deck = createDeck
        /\ currentPlayerIndex = 0
        /\ dealerIndex = 0
        /\ phase = "scoring"
        /\ roundNumber = 1
        /\ dealerSets = NoSets
        /\ seenSetIndex = NONE
        /\ playersWhoActedAfterClose = {}
        /\ roundClosedByPlayerId = NONE
        /\ lastAction = NoAction
        /\ handRef = [i \in DOMAIN created |-> "own"]
        /\ publicRef = "own"
        /\ clients = {0}
        /\ timers = <<>>
        /\ crashed = FALSE
        /\ lastEvent = Scored("hand", hand)
        /\ strays = 0
        /\ acted = 0

CalculateScore(p) ==
  /\ players' = [players EXCEPT ![0].hand = Reordered(players[0].hand, p)]
  /\ lastEvent' = Scored("calculate-score", Reordered(players[0].hand, p))
  /\ UNCHANGED <<publicCards, deck, currentPlayerIndex, dealerIndex, phase,
                 roundNumber, dealerSets, seenSetIndex, playersWhoActedAfterClose,
                 roundClosedByPlayerId, lastAction, handRef, publicRef, clients,
                 timers, crashed, strays, acted>>

ScoreNext == \E p \in Permutations(1 .. 3) : CalculateScore(p)

ScoreSpec == ScoreInit /\ [][ScoreNext]_vars

(***************************************************************************)
(* dealCards on its own: a table of 2 .. MaxSeats players, any of them     *)
(* eliminated, the dealer one of the others (no dealer when all are        *)
(* eliminated), and a shuffled deck.  The step gives the players the       *)
(* playerHands and stores dealerSets and deck.                             *)
(***************************************************************************)
Tables ==
  {[n |-> n, eliminated |-> E, dealer |-> d] :
     n \in 2 .. MaxSeats, E \in SUBSET (0 .. (MaxSeats - 1)),
     d \in (0 .. (MaxSeats - 1)) \cup {NONE}}

DealInit ==
  \E t \in {x \in Tables :
               /\ x.eliminated \subseteq 0 .. (x.n - 1)
               /\ IF x.eliminated = 0 .. (x.n - 1) THEN x.dealer = NONE
                  ELSE x.dealer \in (0 .. (x.n - 1)) \ x.eliminated} :
    LET created == createGameRoom([humanPlayers |-> 1, aiPlayers |-> t.n - 1,
                                   startingLives |-> 1])
    IN  /\ players = [i \in DOMAIN created |->
                        [created[i] EXCEPT
                           !.isDealer = (i = t.dealer),
                           !.isEliminated = (i \in t.eliminated),
                           !.isSwimming = (i \in t.eliminated),
                           !.lives = IF i \in t.eliminated THEN 0 ELSE 1]]
        /\ publicCards = <<>>
        /\ deck = createDeck
        /\ currentPlayerIndex = 0
        /\ dealerIndex = t.dealer
        /\ phase = "dealing"
        /\ roundNumber = 1
        /\ dealerSets = NoSets
        /\ seenSetIndex = NONE
        /\ playersWhoActedAfterClose = {}
        /\ roundClosedByPlayerId = NONE
        /\ lastAction = NoAction
        /\ handRef = [i \in DOMAIN created |-> "own"]
        /\ publicRef = "own"
        /\ clients = {0}
        /\ timers = <<>>
        /\ crashed = FALSE
        /\ lastEvent = Event("players", NONE, "", "", FALSE)
        /\ strays = 0
        /\ acted = 0

DealCards(shuffled) ==
  LET dealt == dealCards(players, shuffled)
  IN  /\ players' = [i \in DOMAIN players |->
                        [players[i] EXCEPT !.hand =
                           IF i \in DOMAIN dealt.playerHands
                           THEN dealt.playerHands[i] ELSE <<>>]]
      /\ dealerSets' = dealt.dealerSets
      /\ deck' = dealt.deck
      /\ lastEvent' = Event("deal-cards", NONE, "", "", FALSE)
      /\ UNCHANGED <<publicCards, currentPlayerIndex, dealerIndex, phase,
                     roundNumber, seenSetIndex, playersWhoActedAfterClose,
                     roundClosedByPlayerId, lastAction, handRef, publicRef,
                     clients, timers, crashed, strays, acted>>

DealNext == \E shuffled \in Shuffles \cup {createDeck} : DealCards(shuffled)

DealSpec == DealInit /\ [][DealNext]_vars

(***************************************************************************)
(* Properties.  A step is recognised by the event it records: every action *)
(* sets lastEvent' to its own type, sender and path.                       *)
(***************************************************************************)
Hands(ps) == [i \in DOMAIN ps |-> ps[i].hand]
Lives(ps) == [i \in DOMAIN ps |-> ps[i].lives]
Eliminated(ps) == {i \in DOMAIN ps : ps[i].isEliminated}

\* a call of processPlayerAction, from a client message or from an AI timer
IsPlayerAction(e) == e.type \in {"player-action", "ai-turn"}

\* a call of processPlayerAction that passed both guards
Accepted(e) ==
  IsPlayerAction(e) /\ e.outcome \in {"three-aces", "all-acted", "advanced"}

\* finishRound was called
Resolved(e) == IsPlayerAction(e) /\ e.outcome \in {"three-aces", "all-acted"}

IsDealerDecision(e) == e.type \in {"dealer-decision", "ai-dealer"}

\* the first non-eliminated seat after seat d, in circular order
FirstActiveAfter(ps, d) ==
  LET n == Cardinality(DOMAIN ps)
      k == SetMin({j \in 1 .. n : ~ps[(d + j) % n].isEliminated})
  IN  (d + k) % n

\* what losing a life does to a non-eliminated player
LostOneLife(before, after) ==
  IF before.lives > 0
  THEN after.lives = before.lives - 1 /\ ~after.isEliminated
  ELSE after.lives = 0 /\ after.isEliminated

\* C1: a player action by a seat that is not players[currentPlayerIndex], or
\* by an eliminated seat, changes no field of the GameState and schedules no
\* timer (a firing AI timer is itself removed, nothing else).
C1_RejectedActionIsNoOp ==
  [][(/\ IsPlayerAction(lastEvent')
      /\ \/ lastEvent'.playerId # currentPlayerIndex
         \/ players[lastEvent'.playerId].isEliminated)
     => /\ UNCHANGED <<gameStateVars, handRef, publicRef>>
        /\ \/ timers' = timers
           \/ \E t \in DOMAIN timers : timers' = RemoveTimer(timers, t)]_vars

\* a client's action out of turn, during play, was returned
C1_Witness ==
  /\ lastEvent.type = "player-action"
  /\ lastEvent.playerId # currentPlayerIndex
  /\ lastEvent.path = "not-your-turn"
  /\ phase = "playing"
  /\ lastAction # NoAction

\* C2: absent a three-aces hand, a player action takes the phase from
\* last-round to scoring (and on to round-end or game-end) only when every
\* seat other than the closer's is recorded in playersWhoActedAfterClose.
C2_CloseRoundCompleteness ==
  [][(/\ IsPlayerAction(lastEvent')
      /\ phase = "last-round"
      /\ phase' \in {"scoring", "round-end", "game-end"}
      /\ ~hasThreeAces(players'[lastEvent'.playerId].hand))
     => \A i \in DOMAIN players :
          i # roundClosedByPlayerId' => i \in playersWhoActedAfterClose']_vars

\* a round of three players was closed and finished by the last of the other
\* two seats
C2_Witness ==
  /\ Resolved(lastEvent) /\ lastEvent.outcome = "all-acted"
  /\ phase \in {"round-end", "game-end"}
  /\ Cardinality(DOMAIN players) = 3
  /\ roundClosedByPlayerId \in DOMAIN players
  /\ lastEvent.playerId # roundClosedByPlayerId
  /\ (DOMAIN players) \ {roundClosedByPlayerId} \subseteq playersWhoActedAfterClose

\* C3: between the close and the finish of the round the closer takes no
\* turn: no action of the closer passes the guards while phase = last-round.
\* Stated for runs in which every message arrived in its phase.
C3_CloserTakesNoTurn ==
  [][(/\ strays' = 0
      /\ phase = "last-round"
      /\ Accepted(lastEvent'))
     => lastEvent'.playerId # roundClosedByPlayerId]_vars

\* C4: after finishRound the phase is game-end when at most one player is
\* not eliminated and round-end otherwise.  Stated for runs in which every
\* message arrived in its phase.
C4_ResolutionSetsEndPhase ==
  (strays = 0 /\ Resolved(lastEvent))
  => phase = IF shouldGameEnd(players) THEN "game-end" ELSE "round-end"

\* C5: continue-game outside round-end and start-round outside setup leave
\* roundNumber, the hands, dealerSets and phase unchanged.
C5_RedealOnlyOnPhaseEdge ==
  [][(\/ lastEvent'.type = "continue-game" /\ phase # "round-end"
      \/ lastEvent'.type = "start-round" /\ phase # "setup")
     => /\ UNCHANGED <<roundNumber, dealerSets, phase>>
        /\ Hands(players') = Hands(players)]_vars

\* C6: a player action while phase is neither playing nor last-round leaves
\* the hands, publicCards, phase, currentPlayerIndex, the lives and
\* roundClosedByPlayerId unchanged.
C6_ActionOutsidePlayDropped ==
  [][(IsPlayerAction(lastEvent') /\ phase \notin {"playing", "last-round"})
     => /\ UNCHANGED <<publicCards, phase, currentPlayerIndex, roundClosedByPlayerId>>
        /\ Hands(players') = Hands(players)
        /\ Lives(players') = Lives(players)]_vars

\* C7: an exchange-one that names a card not in the hand, or not in
\* publicCards, or omits one, moves no card and does not consume the turn.
C7_BadExchangeDropped ==
  [][(/\ IsPlayerAction(lastEvent')
      /\ lastEvent'.path = "exchange-one-dropped"
      /\ phase \in {"playing", "last-round"})
     => /\ Hands(players') = Hands(players)
        /\ UNCHANGED <<publicCards, currentPlayerIndex, lastAction,
                       playersWhoActedAfterClose>>]_vars

\* C8: when the hand of the acting player is three aces after the action,
\* the same step ends the round: the turn does not advance, the phase is
\* round-end or game-end, every other non-eliminated player has lost one
\* life and the holder none.  Stated for runs in which every message
\* arrived in its phase.
C8_ThreeAcesEndsRound ==
  [][(/\ strays' = 0
      /\ Accepted(lastEvent')
      /\ hasThreeAces(players'[lastEvent'.playerId].hand))
     => /\ currentPlayerIndex' = currentPlayerIndex
        /\ phase' \in {"round-end", "game-end"}
        /\ \A i \in DOMAIN players :
             IF i = lastEvent'.playerId
             THEN players'[i].lives = players[i].lives /\ ~players'[i].isEliminated
             ELSE players[i].isEliminated \/ LostOneLife(players[i], players'[i])]_vars

\* C9: outside dealer-decision (in playing, last-round, round-end and
\* game-end) dealerSets and seenSetIndex are null.
C9_DealerSetsTransient ==
  phase \in {"playing", "last-round", "round-end", "game-end"}
  => dealerSets = NoSets /\ seenSetIndex = NONE

\* C10: processDealerDecision in phase dealer-decision (of a room that has a
\* dealer) gives the dealer the
\* seen set when keepSeenSet and the other set otherwise, makes the
\* remaining set the publicCards, changes no other hand, sets phase to
\* playing and currentPlayerIndex to the first non-eliminated seat after
\* dealerIndex.
C10_DealerDecisionEffect ==
  [][(/\ IsDealerDecision(lastEvent')
      /\ phase = "dealer-decision"
      /\ \E d \in DOMAIN players : players[d].isDealer)
     => LET kept == IF lastEvent'.path = "keep" THEN seenSetIndex
                    ELSE 1 - seenSetIndex
        IN  /\ lastEvent'.path \in {"keep", "switch"}
            /\ \A i \in DOMAIN players :
                 players'[i].hand = IF players[i].isDealer
                                    THEN dealerSets[kept + 1]
                                    ELSE players[i].hand
            /\ publicCards' = dealerSets[(1 - kept) + 1]
            /\ phase' = "playing"
            /\ currentPlayerIndex' = FirstActiveAfter(players, dealerIndex)]_vars

\* an AI or human dealer decided in its phase, in a game where the seat next
\* to the dealer is eliminated and is passed over
C10_Witness ==
  /\ IsDealerDecision(lastEvent)
  /\ lastEvent.outcome = "decided"
  /\ ~lastEvent.threw
  /\ strays = 0
  /\ phase = "playing"
  /\ currentPlayerIndex # getNextPlayerIndex(dealerIndex, Cardinality(DOMAIN players))
  /\ players[dealerIndex].hand \in {dealerSets[1], dealerSets[2]}
  /\ publicCards \in {dealerSets[1], dealerSets[2]}

\* C11: once phase has left dealer-decision, a dealer-decision message or an
\* AI-dealer timer callback changes neither the dealer's hand, publicCards,
\* phase nor currentPlayerIndex.
C11_DecisionAppliedOnce ==
  [][(IsDealerDecision(lastEvent') /\ phase # "dealer-decision")
     => /\ \A i \in DOMAIN players :
             players[i].isDealer => players'[i].hand = players[i].hand
        /\ UNCHANGED <<publicCards, phase, currentPlayerIndex>>]_vars

\* the cards a snapshot holds outside the viewer's own hand: the hands it
\* shows of the other players, publicCards, the deck and the dealer sets
SnapshotCards(snap, v) ==
  UNION {Range(snap.players[i].hand) : i \in (DOMAIN snap.players) \ {v}}
  \cup Range(snap.publicCards) \cup Range(snap.deck)
  \cup UNION {Range(snap.dealerSets[k]) : k \in DOMAIN snap.dealerSets}

\* C12: in the snapshot for viewer V the hand of a human player other than
\* V is the true hand while phase is scoring or round-end and empty in
\* every other phase; V's own hand and every AI hand are the true hands.
C12_SnapshotHands ==
  \A v \in clients : \A p \in DOMAIN players :
    getPersonalizedGameState(Room, v).players[p].hand =
      IF p = v \/ players[p].isAI THEN players[p].hand
      ELSE IF phase \in {"scoring", "round-end"} THEN players[p].hand
      ELSE <<>>

\* two clients are connected during play and the snapshot of the second
\* hides the hand the first one holds
C12_Witness ==
  /\ clients = {0, 1}
  /\ phase = "playing"
  /\ Len(players[0].hand) = 3
  /\ getPersonalizedGameState(Room, 1).players[0].hand = <<>>
  /\ getPersonalizedGameState(Room, 1).players[1].hand = players[1].hand
  /\ Len(players[1].hand) = 3

\* C13: outside scoring and round-end no field of the snapshot for viewer V
\* (players, publicCards, deck, dealerSets) holds a card that is in the hand
\* of a human player other than V.
C13_SnapshotRevealsNoHand ==
  phase \notin {"scoring", "round-end"}
  => \A v \in clients : \A p \in DOMAIN players :
       (p # v /\ ~players[p].isAI)
       => Range(players[p].hand)
            \cap SnapshotCards(getPersonalizedGameState(Room, v), v) = {}

\* C14: an AI turn-timer callback that fires while the turn is with another
\* player changes no GameState field, and an AI player has no second action
\* applied in a turn in which one of its actions has already been applied
\* (stated for the turn that resolved a round, which stays with the player).
C14_StaleTimerIsNoOp ==
  [][lastEvent'.type = "ai-turn"
     => /\ currentPlayerIndex # lastEvent'.playerId => UNCHANGED gameStateVars
        /\ ~(/\ Accepted(lastEvent')
             /\ Resolved(lastEvent)
             /\ lastEvent.playerId = lastEvent'.playerId)]_vars

\* a deal has been made for an AI dealer
AIDealerPending ==
  /\ lastEvent.outcome = "dealt" /\ ~lastEvent.threw
  /\ dealerIndex \in DOMAIN players /\ players[dealerIndex].isAI

\* C15 as stated: a deal (start-round, continue-game) leaves phase
\* dealer-decision; when the dealer is an AI then, unless a further client
\* message out of its phase arrives, the AI-dealer timer fires and decides,
\* leaving phase playing and currentPlayerIndex at the seat next to the dealer.
C15_AIDealerResolvesNextSeat ==
  /\ [][lastEvent'.outcome = "dealt" => phase' = "dealer-decision"]_vars
  /\ \A k \in 0 .. MaxStrays :
       (AIDealerPending /\ strays = k)
       ~> \/ strays > k
          \/ /\ lastEvent.type = "ai-dealer" /\ lastEvent.outcome = "decided"
             /\ phase = "playing"
             /\ currentPlayerIndex =
                  getNextPlayerIndex(dealerIndex, Cardinality(DOMAIN players))

\* the AI-dealer timer has decided and the turn is with the first
\* non-eliminated seat after the dealer
AIDealerResolved ==
  /\ lastEvent.type = "ai-dealer" /\ lastEvent.outcome = "decided"
  /\ phase = "playing"
  /\ \E i \in DOMAIN players : ~players[i].isEliminated
  /\ currentPlayerIndex = FirstActiveAfter(players, dealerIndex)

\* C15, amended: as above, with currentPlayerIndex at the first
\* non-eliminated seat after the dealer.
C15_AIDealerResolves ==
  /\ [][lastEvent'.outcome = "dealt" => phase' = "dealer-decision"]_vars
  /\ \A k \in 0 .. MaxStrays :
       (AIDealerPending /\ strays = k) ~> (strays > k \/ AIDealerResolved)

\* the timer of an AI dealer has decided in a game without any message out
\* of its phase, and the seat next to the dealer, eliminated, was passed over
C15_Witness ==
  /\ AIDealerResolved
  /\ strays = 0
  /\ players[dealerIndex].isAI
  /\ players[getNextPlayerIndex(dealerIndex, Cardinality(DOMAIN players))].isEliminated

\* C16: in every state exactly one player has isDealer, that player is
\* players[dealerIndex] and it is not eliminated.
C16_ExactlyOneDealer ==
  /\ Cardinality({i \in DOMAIN players : players[i].isDealer}) = 1
  /\ dealerIndex \in DOMAIN players
  /\ players[dealerIndex].isDealer
  /\ ~players[dealerIndex].isEliminated

\* C17 as stated: for every player isSwimming holds iff lives = 0 and the
\* player is not eliminated.
C17_SwimmingIffZeroLivesNotEliminated ==
  \A i \in DOMAIN players :
    players[i].isSwimming <=> (players[i].lives = 0 /\ ~players[i].isEliminated)

\* C17, amended: for every player isSwimming holds iff lives = 0; an
\* eliminated player has 0 lives and is still marked as swimming.
C17_SwimmingIffZeroLives ==
  \A i \in DOMAIN players :
    /\ players[i].isSwimming <=> players[i].lives = 0
    /\ players[i].isEliminated => players[i].isSwimming

\* a round has been resolved that left one player eliminated, one swimming
\* and not eliminated
C17_Witness ==
  /\ Resolved(lastEvent)
  /\ \E i, j \in DOMAIN players :
       /\ players[i].isEliminated /\ players[i].isSwimming
       /\ ~players[j].isEliminated /\ players[j].isSwimming /\ players[j].lives = 0

\* C18: an eliminated player stays eliminated; at a deal it is not
\* players[dealerIndex] and has isDealer false, it is dealt no hand, a dealer
\* decision gives it no set, and no action in its name is applied.
C18_EliminatedIsTerminal ==
  [][\A i \in DOMAIN players :
       players[i].isEliminated
       => /\ players'[i].isEliminated
          /\ lastEvent'.outcome = "dealt"
             => /\ dealerIndex' # i
                /\ ~players'[i].isDealer
                /\ players'[i].hand = <<>>
          /\ IsDealerDecision(lastEvent') => players'[i].hand = players[i].hand
          /\ ~(Accepted(lastEvent') /\ lastEvent'.playerId = i)]_vars

\* a deal has been made in a game with an eliminated player: the others
\* hold their new hands or wait for the dealer sets, the eliminated has none
C18_Witness ==
  /\ lastEvent.outcome = "dealt" /\ ~lastEvent.threw
  /\ strays = 0
  /\ \E i \in DOMAIN players :
       /\ players[i].isEliminated
       /\ players[i].hand = <<>>
       /\ dealerIndex # i
       /\ \E j \in DOMAIN players : Len(players[j].hand) = 3

\* C19: updatePlayerLives leaves a loser that is not swimming with exactly
\* lives - 1, swimming iff that is 0 and not eliminated; a swimming loser is
\* eliminated with lives 0; a player that did not lose is unchanged; no
\* lives value is negative or greater than before.
C19_UpdatePlayerLives ==
  [][\A loserIds \in SUBSET (DOMAIN players) :
       players' = updatePlayerLives(players, loserIds)
       => \A i \in DOMAIN players :
            /\ (i \in loserIds /\ ~players[i].isSwimming)
               => /\ players'[i].lives = players[i].lives - 1
                  /\ players'[i].isSwimming <=> (players'[i].lives = 0)
                  /\ ~players'[i].isEliminated
            /\ (i \in loserIds /\ players[i].isSwimming)
               => /\ players'[i].isEliminated
                  /\ players'[i].lives = 0
            /\ i \notin loserIds => players'[i] = players[i]
            /\ players'[i].lives >= 0
            /\ players'[i].lives <= players[i].lives]_vars

\* updatePlayerLives has run and left one player eliminated, one swimming
\* and one with lives to spare
C19_Witness ==
  /\ lastEvent.type = "update-player-lives"
  /\ \E i, j, k \in DOMAIN players :
       /\ players[i].isEliminated
       /\ players[j].isSwimming /\ ~players[j].isEliminated
       /\ players[k].lives = MaxLives - 1 /\ ~players[k].isSwimming

\* C20: when no non-eliminated player holds three aces, determineRoundResults
\* returns as loserIds exactly the non-eliminated players whose score is the
\* minimum of the scores of the non-eliminated players (stated for the
\* states of play in which every non-eliminated player holds a hand).
C20_LosersAreMinimumScorers ==
  LET active == activePlayers(players)
  IN  (/\ phase \in {"playing", "last-round"}
       /\ \A i \in active : Len(players[i].hand) = 3
       /\ threeAcesPlayer(players) = NONE)
      => /\ ~determineRoundResultsThrows(players)
         /\ determineRoundResults(players) =
              {i \in active : \A j \in active :
                 calculateScore(players[i].hand) <= calculateScore(players[j].hand)}

\* C21: when a non-eliminated player A holds three aces (and every
\* non-eliminated player holds a hand), determineRoundResults returns
\* threeAcesPlayerId = A and as loserIds exactly the other non-eliminated
\* players, A not among them.
C21_ThreeAcesLosers ==
  LET active == activePlayers(players)
  IN  \A A \in active :
        (/\ hasThreeAces(players[A].hand)
         /\ \A i \in active : Len(players[i].hand) = 3)
        => /\ ~determineRoundResultsThrows(players)
           /\ threeAcesPlayer(players) = A
           /\ determineRoundResults(players) = active \ {A}

\* C22: whenever every non-eliminated player holds 3 cards,
\* determineRoundResults returns without raising an error, also when an
\* eliminated player holds an empty hand, and no eliminated player is in
\* loserIds.
C22_EliminatedExcludedFromScoring ==
  (\A i \in activePlayers(players) : Len(players[i].hand) = 3)
  => /\ ~determineRoundResultsThrows(players)
     /\ determineRoundResults(players) \cap Eliminated(players) = {}

\* C23: getNextDealerIndex(players, loserIds) is the lowest seat of a
\* non-eliminated player in loserIds, without one the lowest seat of a
\* non-eliminated player, and in every case the seat of a non-eliminated
\* player.
C23_NextDealerIsActiveSeat ==
  \A loserIds \in SUBSET (DOMAIN players) :
    LET active == activePlayers(players)
        losers == loserIds \cap active
        next == getNextDealerIndex(players, loserIds)
    IN  /\ losers # {} => next = SetMin(losers)
        /\ (losers = {} /\ active # {}) => next = SetMin(active)
        /\ next \in DOMAIN players
        /\ ~players[next].isEliminated

\* twice the value of card c and twice the sum of the values of the cards of
\* the hand that have the suit of its k-th card (scores are in half points)
CardPoints(c) == 2 * CARD_VALUES(RankOf(c))

SuitPoints(hand, k) ==
  (IF SuitOf(hand[1]) = SuitOf(hand[k]) THEN CardPoints(hand[1]) ELSE 0)
  + (IF SuitOf(hand[2]) = SuitOf(hand[k]) THEN CardPoints(hand[2]) ELSE 0)
  + (IF SuitOf(hand[3]) = SuitOf(hand[k]) THEN CardPoints(hand[3]) ELSE 0)

\* C24: the score of a 3-card hand is 30.5 when the three ranks are equal and
\* otherwise the largest sum of card values over the cards of one suit, which
\* is the highest card value when the three suits differ; reordering the
\* hand does not change the score.
C24_ScoreOfHand ==
  /\ [](LET hand == players[0].hand
            sameRank == /\ RankOf(hand[1]) = RankOf(hand[2])
                        /\ RankOf(hand[2]) = RankOf(hand[3])
            suits == {SuitOf(hand[i]) : i \in 1 .. 3}
        IN  /\ sameRank => lastEvent.score = 61
            /\ ~sameRank
               => lastEvent.score = SetMax({SuitPoints(hand, k) : k \in 1 .. 3})
            /\ (~sameRank /\ Cardinality(suits) = 3)
               => lastEvent.score = SetMax({CardPoints(hand[i]) : i \in 1 .. 3}))
  /\ [][lastEvent'.score = lastEvent.score]_vars

\* a hand taken out of order whose first and last card share a suit has been
\* scored with the sum of the two
C24_Witness ==
  LET hand == players[0].hand
  IN  /\ lastEvent.type = "calculate-score"
      /\ hand[1] > hand[3]
      /\ SuitOf(hand[1]) = SuitOf(hand[3]) /\ SuitOf(hand[2]) # SuitOf(hand[1])
      /\ lastEvent.score = CardPoints(hand[1]) + CardPoints(hand[3])
      /\ lastEvent.score > CardPoints(hand[2])

\* C25 as stated: the score of a hand of 3 distinct cards is at most 30.5.
C25_ScoreAtMostThreeOfAKind == lastEvent.score <= 61

\* C25, amended: the score of a hand of 3 distinct cards is at most 31, and
\* only an ace with two cards of value 10 in one suit scores more than the
\* 30.5 of three of a kind.
C25_ScoreAtMostThirtyOne ==
  LET hand == players[0].hand
  IN  /\ lastEvent.score <= 62
      /\ lastEvent.score > 61
         => /\ Cardinality({SuitOf(hand[i]) : i \in 1 .. 3}) = 1
            /\ \E i \in 1 .. 3 :
                 /\ RankOf(hand[i]) = ACE
                 /\ \A j \in (1 .. 3) \ {i} : CARD_VALUES(RankOf(hand[j])) = 10

\* an ace, a king and a queen of one suit have been scored 31
C25_Witness ==
  LET hand == players[0].hand
  IN  /\ lastEvent.type = "calculate-score"
      /\ lastEvent.score = 62
      /\ {RankOf(hand[i]) : i \in 1 .. 3} = {ACE, ACE - 1, ACE - 2}

\* C26: after dealCards on the 32-card deck every non-dealer, non-eliminated
\* player holds exactly 3 cards, a non-eliminated dealer has two sets of
\* exactly 3 cards, the eliminated players and the dealer hold no hand, no
\* card is in two of the hands, sets and remaining deck, and hands, sets and
\* deck together are the 32 cards.
C26_DealCards ==
  lastEvent.type = "deal-cards"
  => LET dealt == {i \in DOMAIN players : Len(players[i].hand) = 3}
         cards == UNION {Range(players[i].hand) : i \in DOMAIN players}
                  \cup Range(dealerSets[1]) \cup Range(dealerSets[2])
                  \cup Range(deck)
     IN  /\ \A i \in DOMAIN players :
              IF players[i].isDealer \/ players[i].isEliminated
              THEN players[i].hand = <<>>
              ELSE Len(players[i].hand) = 3
         /\ (\E i \in DOMAIN players :
               players[i].isDealer /\ ~players[i].isEliminated)
            => Len(dealerSets[1]) = 3 /\ Len(dealerSets[2]) = 3
         /\ 3 * Cardinality(dealt) + Len(dealerSets[1]) + Len(dealerSets[2])
              + Len(deck) = NumSuits * NumRanks
         /\ cards = Range(createDeck)

\* a table of eight players, one of them eliminated, has been dealt
C26_Witness ==
  /\ lastEvent.type = "deal-cards"
  /\ Cardinality(DOMAIN players) >= 8
  /\ Cardinality(Eliminated(players)) = 1
  /\ Len(dealerSets[1]) = 3 /\ Len(dealerSets[2]) = 3
  /\ Len(deck) = NumSuits * NumRanks - 3 * 6 - 6

\* C27: a join-game message whose lower-cased room id is not the room's, or
\* that finds a connection on every human seat, is answered with an error
\* and changes neither the room's state nor the seat bindings; any other
\* binds the sender to the first human seat without a connection, never to
\* an AI seat or to a seat that has a connection.
C27_JoinGame ==
  [][lastEvent'.type = "join-game"
     => LET free == {i \in DOMAIN players : ~players[i].isAI /\ i \notin clients}
            unknown == lastEvent'.path \notin {"ab1", "AB1", "Ab1"}
        IN  /\ (unknown \/ free = {})
               => /\ lastEvent'.outcome \in {"room-not-found", "room-is-full"}
                  /\ UNCHANGED <<gameStateVars, clients>>
            /\ ~(unknown \/ free = {})
               => /\ lastEvent'.outcome = "joined"
                  /\ lastEvent'.playerId = SetMin(free)
                  /\ clients' = clients \cup {SetMin(free)}
                  /\ ~players[lastEvent'.playerId].isAI
                  /\ lastEvent'.playerId \notin clients]_vars

\* the second human seat has been bound by a join-game message that gave
\* the room id in upper case
C27_Witness ==
  /\ lastEvent.type = "join-game"
  /\ lastEvent.path = "AB1"
  /\ lastEvent.outcome = "joined"
  /\ lastEvent.playerId = 1
  /\ clients = {0, 1}

\* C28: a dealer-decision message from a connection whose player is not
\* players[dealerIndex] changes neither the dealer's hand, publicCards nor
\* phase.
C28_DecisionOnlyFromDealer ==
  [][(lastEvent'.type = "dealer-decision" /\ lastEvent'.playerId # dealerIndex)
     => /\ \A i \in DOMAIN players :
             (i = dealerIndex \/ players[i].isDealer)
             => players'[i].hand = players[i].hand
        /\ UNCHANGED <<publicCards, phase>>]_vars

\* C29: an accepted action that does not end the round leaves
\* currentPlayerIndex at the next non-eliminated seat after the actor, and in
\* every state with phase playing or last-round players[currentPlayerIndex]
\* is not eliminated.
C29_TurnWithActivePlayer ==
  /\ [][(Accepted(lastEvent') /\ lastEvent'.outcome = "advanced")
        => /\ activePlayers(players') # {}
           /\ currentPlayerIndex' = FirstActiveAfter(players', lastEvent'.playerId)]_vars
  /\ [](phase \in {"playing", "last-round"}
        => ~players[currentPlayerIndex].isEliminated)

\* the advances of currentPlayerIndex that processNextTurn makes from seat i
\* over eliminated players, counted up to the given limit
RECURSIVE Advances(_, _, _)
Advances(ps, i, limit) ==
  IF limit = 0 \/ ~ps[i].isEliminated THEN 0
  ELSE 1 + Advances(ps, getNextPlayerIndex(i, Cardinality(DOMAIN ps)), limit - 1)

\* C30: processNextTurn, called after a dealer decision or after an action
\* that passed the turn on, makes at most players.length advances over
\* eliminated players; it is not called with every player eliminated.
C30_SkippingTerminates ==
  [][LET n == Cardinality(DOMAIN players)
     IN  /\ (IsDealerDecision(lastEvent') /\ lastEvent'.outcome = "decided")
            => /\ activePlayers(players) # {}
               /\ Advances(players, getNextPlayerIndex(dealerIndex, n), n + 1) <= n
         /\ (Accepted(lastEvent') /\ lastEvent'.outcome = "advanced")
            => /\ activePlayers(players') # {}
               /\ Advances(players', getNextPlayerIndex(lastEvent'.playerId, n), n + 1)
                    <= n]_vars

\* C31: in every state with phase playing or last-round each non-eliminated
\* player holds exactly 3 cards, publicCards has exactly 3 cards, no card is
\* twice among the hands and publicCards, and hands, publicCards and deck
\* together are the 32 cards of the deck.
C31_CardConservation ==
  phase \in {"playing", "last-round"}
  => LET active == activePlayers(players)
         held == UNION {Range(players[i].hand) : i \in DOMAIN players}
         handCards ==
                      3 * Cardinality({i \in DOMAIN players : Len(players[i].hand) = 3})
     IN  /\ \A i \in active : Len(players[i].hand) = 3
         /\ \A i \in DOMAIN players : Len(players[i].hand) \in {0, 3}
         /\ Len(publicCards) = 3
         /\ Cardinality(held \cup Range(publicCards)) = handCards + 3
         /\ held \cup Range(publicCards) \cup Range(deck) = Range(createDeck)
         /\ handCards + 3 + Len(deck) = NumSuits * NumRanks

\* C32: in no state with phase playing or last-round does a non-eliminated
\* player hold three cards of one rank.
C32_NoThreeOfAKindInPlay ==
  phase \in {"playing", "last-round"}
  => \A i \in activePlayers(players) :
       Len(players[i].hand) = 3
       => ~(/\ RankOf(players[i].hand[1]) = RankOf(players[i].hand[2])
            /\ RankOf(players[i].hand[2]) = RankOf(players[i].hand[3]))

\* C33: game-end is absorbing: from a state with phase game-end no client
\* message and no timer callback changes phase, lives, isEliminated, hands
\* or roundNumber.
C33_GameEndAbsorbing ==
  [][phase = "game-end"
     => /\ phase' = phase
        /\ roundNumber' = roundNumber
        /\ Lives(players') = Lives(players)
        /\ Eliminated(players') = Eliminated(players)
        /\ Hands(players') = Hands(players)]_vars

\* C34: the phases dealing and scoring are transient: after a client message
\* or a timer callback has been processed phase is neither dealing nor
\* scoring.
C34_TransientPhases == phase \notin {"dealing", "scoring"}

\* C35: each deal is resolved at most once: finishRound does not run in a
\* state in which it has already run for the current roundNumber (the phases
\* scoring, round-end and game-end are set by finishRound only and are left
\* only by the next deal or by a dealer decision).
C35_DealResolvedOnce ==
  [][Resolved(lastEvent') => phase \notin {"scoring", "round-end", "game-end"}]_vars

\* C36: within one deal the round is closed at most once: close-round is
\* applied only while phase is playing, roundClosedByPlayerId once set does
\* not change until the next deal, at most one player has hasClosedRound,
\* and a deal resets roundClosedByPlayerId, playersWhoActedAfterClose and
\* every hasClosedRound.
C36_ClosedAtMostOnce ==
  /\ [](Cardinality({i \in DOMAIN players : players[i].hasClosedRound}) <= 1)
  /\ [][/\ (Accepted(lastEvent') /\ lastEvent'.path = "close-round")
           => phase = "playing"
        /\ (roundClosedByPlayerId # NONE /\ roundNumber' = roundNumber)
           => roundClosedByPlayerId' = roundClosedByPlayerId
        /\ lastEvent'.outcome = "dealt"
           => /\ roundClosedByPlayerId' = NONE
              /\ playersWhoActedAfterClose' = {}
              /\ \A i \in DOMAIN players' : ~players'[i].hasClosedRound]_vars

\* C37: no close-round before the first full round of turns: a client
\* message or AI timer that takes the phase to last-round comes after every
\* non-eliminated player has taken a turn in the deal, so after at least as
\* many accepted actions in the deal as there are non-eliminated players.
C37_NoEarlyClose ==
  [][(/\ Accepted(lastEvent') /\ lastEvent'.path = "close-round"
      /\ phase # "last-round" /\ phase' = "last-round")
     => acted >= Cardinality(activePlayers(players))]_vars

\* C38: whenever the handling of a client message ends with the error reply
\* of the catch block (the message was malformed or a handler threw), every
\* field of the room's GameState is as before the message.
C38_ErrorLeavesGameState ==
  [][(/\ lastEvent'.threw
      /\ lastEvent'.type \in {"malformed", "join-game", "start-round",
                              "continue-game", "dealer-decision", "player-action"})
     => UNCHANGED gameStateVars]_vars

\* C39: during dealer-decision the snapshot sent to the dealer holds the
\* cards of dealerSets[seenSetIndex] and no card of the other set, and the
\* snapshot sent to any other client holds no card of either set.
C39_DealerSetsConfidential ==
  (/\ phase = "dealer-decision"
   /\ dealerSets # NoSets /\ seenSetIndex # NONE)
  => \A v \in clients :
       LET snap == getPersonalizedGameState(Room, v)
           shown == SnapshotCards(snap, v) \cup Range(snap.players[v].hand)
           seen == Range(dealerSets[seenSetIndex + 1])
           other == Range(dealerSets[(1 - seenSetIndex) + 1])
       IN  IF v = dealerIndex
           THEN seen \subseteq shown /\ other \cap shown = {}
           ELSE (seen \cup other) \cap shown = {}

(***************************************************************************)
(* getAIDealerDecision on its own: round 2 of a game of 1 human and 1 AI,  *)
(* the AI (seat 1) lost round 1 and deals.  It is shown                    *)
(* dealerSets[seenSetIndex], any three distinct cards of the deck; the     *)
(* human's hand and the other set are the lowest cards left, publicCards   *)
(* are those of round 1.  lastEvent carries the keepSeenSet that           *)
(* getAIDealerDecision returns.                                            *)
(***************************************************************************)
Decided(type, keepSeenSet) ==
  [type |-> type, playerId |-> 1, path |-> "", outcome |-> "", threw |-> FALSE,
   keepSeenSet |-> keepSeenSet]

DecisionInit ==
  \E seenSet \in {h \in Range(createDeck) \X Range(createDeck) \X Range(createDeck) :
                    h[1] < h[2] /\ h[2] < h[3]},
     seen \in {0, 1} :
    LET created == createGameRoom([humanPlayers |-> 1, aiPlayers |-> 1,
                                   startingLives |-> MaxLives])
        rest == SelectSeq(createDeck, LAMBDA c : c \notin Range(seenSet))
        otherSet == SubSeq(rest, 4, 6)
    IN  /\ players = [created EXCEPT ![0].hand = SubSeq(rest, 1, 3),
                                     ![0].isDealer = FALSE,
                                     ![1].isDealer = TRUE,
                                     ![1].lives = MaxLives - 1]
        /\ publicCards = SubSeq(rest, 7, 9)
        /\ deck = SubSeq(rest, 7, Len(rest))
        /\ currentPlayerIndex = 0
        /\ dealerIndex = 1
        /\ phase = "dealer-decision"
        /\ roundNumber = 2
        /\ dealerSets = IF seen = 0 THEN <<seenSet, otherSet>>
                        ELSE <<otherSet, seenSet>>
        /\ seenSetIndex = seen
        /\ playersWhoActedAfterClose = {}
        /\ roundClosedByPlayerId = NONE
        /\ lastAction = [playerId |-> 0, action |-> "skip"]
        /\ handRef = [i \in DOMAIN created |-> "own"]
        /\ publicRef = "own"
        /\ clients = {0}
        /\ timers = (DealerTimer :> 1)
        /\ crashed = FALSE
        /\ lastEvent = Decided("seen-set", FALSE)
        /\ strays = 0
        /\ acted = 0

GetAIDealerDecision ==
  /\ \E keepSeenSet \in getAIDealerDecision(dealerSets[seenSetIndex + 1]) :
       lastEvent' = Decided("get-ai-dealer-decision", keepSeenSet)
  /\ UNCHANGED <<players, publicCards, deck, currentPlayerIndex, dealerIndex, phase,
                 roundNumber, dealerSets, seenSetIndex, playersWhoActedAfterClose,
                 roundClosedByPlayerId, lastAction, handRef, publicRef, clients,
                 timers, crashed, strays, acted>>

DecisionNext == GetAIDealerDecision

DecisionSpec == DecisionInit /\ [][DecisionNext]_vars

\* C40: getAIDealerDecision keeps the seen set whenever it holds three aces
\* or scores 29 or more, takes the other set whenever it scores less than
\* 20, and for a score in [25, 29) as for a score in [20, 25) both keeping
\* and switching are possible results (scores in half points).
C40_AIDealerThresholds ==
  LET seenSet == dealerSets[seenSetIndex + 1]
      seenScore == calculateScore(seenSet)
      results == getAIDealerDecision(seenSet)
  IN  /\ (hasThreeAces(seenSet) \/ seenScore >= 58) => results = {TRUE}
      /\ seenScore < 40 => results = {FALSE}
      /\ (~hasThreeAces(seenSet) /\ seenScore >= 50 /\ seenScore < 58)
         => results = {TRUE, FALSE}
      /\ (seenScore >= 40 /\ seenScore < 50) => results = {TRUE, FALSE}
      /\ lastEvent.type = "get-ai-dealer-decision"
         => lastEvent.keepSeenSet \in results

====
